---- MODULE Spec2Model ----
(***************************************************************************)
(* Model of sqlalchemy.dialects.postgresql.ranges.Range: the edge          *)
(* comparator, the relation predicates and the combining operators.        *)
(*                                                                         *)
(* A scalar is a record [k, v]: k is the runtime type of the Python value  *)
(* ("none" for None, "int", "decimal", "date", "datetime") and v its       *)
(* position in the order of that type.  A Range is the dataclass's four    *)
(* fields; bounds is the two-character string as a pair of characters.     *)
(***************************************************************************)
EXTENDS Integers, Sequences, FiniteSets, TLC

\* ---- bounds of the model ------------------------------------------------
\* scalars of a domain are 0..MaxVal
MaxVal == 3
\* lower/upper carried by a range constructed with empty=True are None or
\* 0..MaxEmptyVal
MaxEmptyVal == 0

\* ---- scalars --------------------------------------------------------------
None == [k |-> "none", v |-> 0]
IntVal(n) == [k |-> "int", v |-> n]

Domains == {"int", "decimal"}
Scalars(dom) == {[k |-> dom, v |-> n] : n \in 0..MaxVal}
EmptyScalars(dom) == {[k |-> dom, v |-> n] : n \in 0..MaxEmptyVal}

BoundsSet == {<<"(", ")">>, <<"[", ")">>, <<"(", "]">>, <<"[", "]">>}

\* Range(lower, upper, bounds=..., empty=...)
Range(lower, upper, bounds, empty) ==
    [lower |-> lower, upper |-> upper, bounds |-> bounds, empty |-> empty]

\* the ranges a caller can construct over one domain
Ranges(dom) ==
    {Range(l, u, b, FALSE) :
        l \in Scalars(dom) \cup {None}, u \in Scalars(dom) \cup {None},
        b \in BoundsSet}
    \cup
    {Range(l, u, b, TRUE) :
        l \in EmptyScalars(dom) \cup {None}, u \in EmptyScalars(dom) \cup {None},
        b \in BoundsSet}

\* isinstance(value, Range)
IsRange(value) == "bounds" \in DOMAIN value

\* ---- Range._contains_value ------------------------------------------------
_contains_value_upper_exclusive(self, value) ==
    IF self.empty THEN FALSE
    ELSE IF self.lower = None THEN
        self.upper = None \/ value.v < self.upper.v
    ELSE IF self.upper = None THEN
        IF self.bounds[1] = "(" THEN value.v > self.lower.v
        ELSE value.v >= self.lower.v
    ELSE
        /\ IF self.bounds[1] = "(" THEN value.v > self.lower.v
           ELSE value.v >= self.lower.v
        /\ value.v < self.upper.v

_contains_value(self, value) ==
    IF self.empty THEN FALSE
    ELSE IF self.lower = None THEN
        \/ self.upper = None
        \/ IF self.bounds[2] = ")" THEN value.v < self.upper.v
           ELSE value.v <= self.upper.v
    ELSE IF self.upper = None THEN
        IF self.bounds[1] = "(" THEN value.v > self.lower.v
        ELSE value.v >= self.lower.v
    ELSE
        /\ IF self.bounds[1] = "(" THEN value.v > self.lower.v
           ELSE value.v >= self.lower.v
        /\ IF self.bounds[2] = ")" THEN value.v < self.upper.v
           ELSE value.v <= self.upper.v

\* ---- Range._get_discrete_step ---------------------------------------------
\* 1 for int, None for datetime, timedelta(days=1) for date, None otherwise
_get_discrete_step(self) ==
    IF self.lower.k = "int" \/ self.upper.k = "int" THEN [k |-> "int", v |-> 1]
    ELSE IF self.lower.k = "datetime" \/ self.upper.k = "datetime" THEN None
    ELSE IF self.lower.k = "date" \/ self.upper.k = "date"
        THEN [k |-> "timedelta", v |-> 1]
    ELSE None

\* ---- Range._compare_edges -------------------------------------------------
\* value1 += step
PlusStep(value, step) == [k |-> value.k, v |-> value.v + step.v]

\* the value and the inclusivity flag of an edge after the "[)" normalization
NormalizedValue_lower_only(step, value, bound) ==
    IF step = None THEN value
    ELSE IF bound = "(" THEN PlusStep(value, step) ELSE value

NormalizedValue(step, value, bound) ==
    IF step = None THEN value
    ELSE IF bound \in {"[", "("}
        THEN (IF bound \notin {"[", "]"} THEN PlusStep(value, step) ELSE value)
        ELSE (IF bound \in {"[", "]"} THEN PlusStep(value, step) ELSE value)

NormalizedInc(step, bound) ==
    IF step = None THEN bound \in {"[", "]"}
    ELSE IF bound \in {"[", "("}
        THEN (IF bound \notin {"[", "]"} THEN TRUE ELSE bound \in {"[", "]"})
        ELSE (IF bound \in {"[", "]"} THEN FALSE ELSE bound \in {"[", "]"})

_compare_edges_tie_sign_flipped(self, value1, bound1, value2, bound2, only_values) ==
    LET value1_is_lower_bound == bound1 \in {"[", "("}
        value2_is_lower_bound == bound2 \in {"[", "("}
    IN
    IF value1 = None /\ value2 = None THEN
        IF value1_is_lower_bound = value2_is_lower_bound THEN 0
        ELSE IF value1_is_lower_bound THEN -1 ELSE 1
    ELSE IF value1 = None THEN
        IF value1_is_lower_bound THEN -1 ELSE 1
    ELSE IF value2 = None THEN
        IF value2_is_lower_bound THEN 1 ELSE -1
    ELSE IF bound1 = bound2 /\ value1.v = value2.v THEN 0
    ELSE
        LET step == _get_discrete_step(self)
            v1 == NormalizedValue(step, value1, bound1)
            v2 == NormalizedValue(step, value2, bound2)
            value1_inc == NormalizedInc(step, bound1)
            value2_inc == NormalizedInc(step, bound2)
        IN
        IF v1.v < v2.v THEN -1
        ELSE IF v1.v > v2.v THEN 1
        ELSE IF only_values THEN 0
        ELSE IF value1_inc /\ value2_inc THEN 0
        ELSE IF ~value1_inc /\ ~value2_inc THEN
            IF value1_is_lower_bound = value2_is_lower_bound THEN 0
            ELSE IF value1_is_lower_bound THEN 1 ELSE -1
        ELSE IF ~value1_inc THEN
            IF value1_is_lower_bound THEN 1 ELSE -1
        ELSE IF ~value2_inc THEN
            IF value2_is_lower_bound THEN 1 ELSE -1
        ELSE 0

_compare_edges_wrong_side_flag(self, value1, bound1, value2, bound2, only_values) ==
    LET value1_is_lower_bound == bound1 \in {"[", "("}
        value2_is_lower_bound == bound2 \in {"[", "("}
    IN
    IF value1 = None /\ value2 = None THEN
        IF value1_is_lower_bound = value2_is_lower_bound THEN 0
        ELSE IF value1_is_lower_bound THEN -1 ELSE 1
    ELSE IF value1 = None THEN
        IF value2_is_lower_bound THEN -1 ELSE 1
    ELSE IF value2 = None THEN
        IF value2_is_lower_bound THEN 1 ELSE -1
    ELSE IF bound1 = bound2 /\ value1.v = value2.v THEN 0
    ELSE
        LET step == _get_discrete_step(self)
            v1 == NormalizedValue(step, value1, bound1)
            v2 == NormalizedValue(step, value2, bound2)
            value1_inc == NormalizedInc(step, bound1)
            value2_inc == NormalizedInc(step, bound2)
        IN
        IF v1.v < v2.v THEN -1
        ELSE IF v1.v > v2.v THEN 1
        ELSE IF only_values THEN 0
        ELSE IF value1_inc /\ value2_inc THEN 0
        ELSE IF ~value1_inc /\ ~value2_inc THEN
            IF value1_is_lower_bound = value2_is_lower_bound THEN 0
            ELSE IF value1_is_lower_bound THEN 1 ELSE -1
        ELSE IF ~value1_inc THEN
            IF value1_is_lower_bound THEN 1 ELSE -1
        ELSE IF ~value2_inc THEN
            IF value2_is_lower_bound THEN -1 ELSE 1
        ELSE 0

_compare_edges(self, value1, bound1, value2, bound2, only_values) ==
    LET value1_is_lower_bound == bound1 \in {"[", "("}
        value2_is_lower_bound == bound2 \in {"[", "("}
    IN
    IF value1 = None /\ value2 = None THEN
        IF value1_is_lower_bound = value2_is_lower_bound THEN 0
        ELSE IF value1_is_lower_bound THEN -1 ELSE 1
    ELSE IF value1 = None THEN
        IF value1_is_lower_bound THEN -1 ELSE 1
    ELSE IF value2 = None THEN
        IF value2_is_lower_bound THEN 1 ELSE -1
    ELSE IF bound1 = bound2 /\ value1.v = value2.v THEN 0
    ELSE
        LET step == _get_discrete_step(self)
            v1 == NormalizedValue(step, value1, bound1)
            v2 == NormalizedValue(step, value2, bound2)
            value1_inc == NormalizedInc(step, bound1)
            value2_inc == NormalizedInc(step, bound2)
        IN
        IF v1.v < v2.v THEN -1
        ELSE IF v1.v > v2.v THEN 1
        ELSE IF only_values THEN 0
        ELSE IF value1_inc /\ value2_inc THEN 0
        ELSE IF ~value1_inc /\ ~value2_inc THEN
            IF value1_is_lower_bound = value2_is_lower_bound THEN 0
            ELSE IF value1_is_lower_bound THEN 1 ELSE -1
        ELSE IF ~value1_inc THEN
            IF value1_is_lower_bound THEN 1 ELSE -1
        ELSE IF ~value2_inc THEN
            IF value2_is_lower_bound THEN -1 ELSE 1
        ELSE 0

\* ---- Range.contained_by / contains ----------------------------------------
contained_by_strict(self, other) ==
    IF self.empty THEN TRUE
    ELSE IF other.empty THEN FALSE
    ELSE IF _compare_edges(self, self.lower, self.bounds[1],
                           other.lower, other.bounds[1], FALSE) <= 0 THEN FALSE
    ELSE IF _compare_edges(self, self.upper, self.bounds[2],
                           other.upper, other.bounds[2], FALSE) >= 0 THEN FALSE
    ELSE TRUE

contained_by(self, other) ==
    IF self.empty THEN TRUE
    ELSE IF other.empty THEN FALSE
    ELSE IF _compare_edges(self, self.lower, self.bounds[1],
                           other.lower, other.bounds[1], FALSE) < 0 THEN FALSE
    ELSE IF _compare_edges(self, self.upper, self.bounds[2],
                           other.upper, other.bounds[2], FALSE) > 0 THEN FALSE
    ELSE TRUE

contains_swapped(self, value) ==
    IF IsRange(value) THEN contained_by(self, value)
    ELSE _contains_value(self, value)

contains(self, value) ==
    IF IsRange(value) THEN contained_by(value, self)
    ELSE _contains_value(self, value)

\* ---- Range.overlaps ---------------------------------------------------------
overlaps_own_lower_only(self, other) ==
    IF self.empty \/ other.empty THEN FALSE
    ELSE
        /\ _compare_edges(self, self.lower, self.bounds[1],
                          other.lower, other.bounds[1], FALSE) >= 0
        /\ _compare_edges(self, self.lower, self.bounds[1],
                          other.upper, other.bounds[2], FALSE) <= 0

overlaps(self, other) ==
    IF self.empty \/ other.empty THEN FALSE
    ELSE
        LET slower == self.lower     slower_b == self.bounds[1]
            supper == self.upper     supper_b == self.bounds[2]
            olower == other.lower    olower_b == other.bounds[1]
            oupper == other.upper    oupper_b == other.bounds[2]
        IN
        IF /\ _compare_edges(self, slower, slower_b, olower, olower_b, FALSE) >= 0
           /\ _compare_edges(self, slower, slower_b, oupper, oupper_b, FALSE) <= 0
        THEN TRUE
        ELSE IF /\ _compare_edges(self, olower, olower_b, slower, slower_b, FALSE) >= 0
                /\ _compare_edges(self, olower, olower_b, supper, supper_b, FALSE) <= 0
        THEN TRUE
        ELSE FALSE

\* ---- Range._upper_edge_adjacent_to_lower / adjacent_to ----------------------
_upper_edge_adjacent_to_lower(self, value1, bound1, value2, bound2) ==
    LET res == _compare_edges(self, value1, bound1, value2, bound2, TRUE) IN
    IF res = -1 THEN
        LET step == _get_discrete_step(self) IN
        IF step = None THEN FALSE
        ELSE IF bound1 = "]" THEN
            IF bound2 = "[" THEN value1.v = value2.v - step.v
            ELSE value1.v = value2.v
        ELSE
            IF bound2 = "[" THEN value1.v = value2.v
            ELSE value1.v = value2.v - step.v
    ELSE IF res = 0 THEN
        \/ bound1 = ")" /\ bound2 = "["
        \/ bound1 = "]" /\ bound2 = "("
    ELSE FALSE

adjacent_to_own_upper_only(self, other) ==
    IF self.empty \/ other.empty THEN FALSE
    ELSE _upper_edge_adjacent_to_lower(self, self.upper, self.bounds[2],
                                       other.lower, other.bounds[1])

adjacent_to(self, other) ==
    IF self.empty \/ other.empty THEN FALSE
    ELSE
        \/ _upper_edge_adjacent_to_lower(self, self.upper, self.bounds[2],
                                         other.lower, other.bounds[1])
        \/ _upper_edge_adjacent_to_lower(self, other.upper, other.bounds[2],
                                         self.lower, self.bounds[1])

\* ---- Range.strictly_left_of / strictly_right_of ------------------------------
strictly_left_of_nonstrict(self, other) ==
    IF self.empty \/ other.empty THEN FALSE
    ELSE _compare_edges(self, self.upper, self.bounds[2],
                        other.lower, other.bounds[1], FALSE) <= 0

strictly_left_of(self, other) ==
    IF self.empty \/ other.empty THEN FALSE
    ELSE _compare_edges(self, self.upper, self.bounds[2],
                        other.lower, other.bounds[1], FALSE) < 0

strictly_right_of(self, other) ==
    IF self.empty \/ other.empty THEN FALSE
    ELSE _compare_edges(self, self.lower, self.bounds[1],
                        other.upper, other.bounds[2], FALSE) > 0

\* ---- Range.not_extend_left_of / not_extend_right_of --------------------------
not_extend_left_of_no_empty_test(self, other) ==
    _compare_edges(self, self.lower, self.bounds[1],
                   other.lower, other.bounds[1], FALSE) >= 0

not_extend_left_of(self, other) ==
    IF self.empty \/ other.empty THEN FALSE
    ELSE _compare_edges(self, self.lower, self.bounds[1],
                        other.lower, other.bounds[1], FALSE) >= 0

not_extend_right_of(self, other) ==
    IF self.empty \/ other.empty THEN FALSE
    ELSE _compare_edges(self, self.upper, self.bounds[2],
                        other.upper, other.bounds[2], FALSE) <= 0

\* ---- the step arithmetic a call evaluates ------------------------------------
\* Python raises TypeError for "value + step" and "value - step" when the value
\* or the step is None.  Each operator below gives the operand pairs
\* <<value, step>> of the additions and subtractions its method evaluates.

\* lines 177-199: "value += step" on an exclusive lower or inclusive upper edge,
\* reached after the None tests of lines 159-167 and the short path of line 170
_compare_edges_arith(self, value1, bound1, value2, bound2) ==
    IF value1 = None \/ value2 = None THEN {}
    ELSE IF bound1 = bound2 /\ value1.v = value2.v THEN {}
    ELSE
        LET step == _get_discrete_step(self) IN
        IF step = None THEN {}
        ELSE (IF bound1 \in {"(", "]"} THEN {<<value1, step>>} ELSE {})
             \cup (IF bound2 \in {"(", "]"} THEN {<<value2, step>>} ELSE {})

\* lines 371-385: the comparison, then "value2 - step" when res == -1
_upper_edge_adjacent_to_lower_arith(self, value1, bound1, value2, bound2) ==
    _compare_edges_arith(self, value1, bound1, value2, bound2)
    \cup
    IF _compare_edges(self, value1, bound1, value2, bound2, TRUE) = -1 THEN
        LET step == _get_discrete_step(self) IN
        IF step = None THEN {}
        ELSE IF bound1 = "]" THEN
            IF bound2 = "[" THEN {<<value2, step>>} ELSE {}
        ELSE
            IF bound2 = "[" THEN {} ELSE {<<value2, step>>}
    ELSE {}

\* lines 242-250
contained_by_arith(self, other) ==
    IF self.empty \/ other.empty THEN {}
    ELSE
        _compare_edges_arith(self, self.lower, self.bounds[1],
                             other.lower, other.bounds[1])
        \cup
        IF _compare_edges(self, self.lower, self.bounds[1],
                          other.lower, other.bounds[1], FALSE) < 0 THEN {}
        ELSE _compare_edges_arith(self, self.upper, self.bounds[2],
                                  other.upper, other.bounds[2])

\* lines 280-291
overlaps_arith(self, other) ==
    IF self.empty \/ other.empty THEN {}
    ELSE
        LET sl_ol == _compare_edges(self, self.lower, self.bounds[1],
                                    other.lower, other.bounds[1], FALSE) >= 0
            sl_ou == _compare_edges(self, self.lower, self.bounds[1],
                                    other.upper, other.bounds[2], FALSE) <= 0
            ol_sl == _compare_edges(self, other.lower, other.bounds[1],
                                    self.lower, self.bounds[1], FALSE) >= 0
        IN
        _compare_edges_arith(self, self.lower, self.bounds[1],
                             other.lower, other.bounds[1])
        \cup (IF sl_ol
              THEN _compare_edges_arith(self, self.lower, self.bounds[1],
                                        other.upper, other.bounds[2])
              ELSE {})
        \cup (IF sl_ol /\ sl_ou THEN {}
              ELSE _compare_edges_arith(self, other.lower, other.bounds[1],
                                        self.lower, self.bounds[1])
                   \cup (IF ol_sl
                         THEN _compare_edges_arith(self, other.lower, other.bounds[1],
                                                   self.upper, self.bounds[2])
                         ELSE {}))

\* lines 308, 325, 342, 357: one comparison each
strictly_left_of_arith(self, other) ==
    IF self.empty \/ other.empty THEN {}
    ELSE _compare_edges_arith(self, self.upper, self.bounds[2],
                              other.lower, other.bounds[1])

strictly_right_of_arith(self, other) ==
    IF self.empty \/ other.empty THEN {}
    ELSE _compare_edges_arith(self, self.lower, self.bounds[1],
                              other.upper, other.bounds[2])

not_extend_left_of_arith(self, other) ==
    IF self.empty \/ other.empty THEN {}
    ELSE _compare_edges_arith(self, self.lower, self.bounds[1],
                              other.lower, other.bounds[1])

not_extend_right_of_arith(self, other) ==
    IF self.empty \/ other.empty THEN {}
    ELSE _compare_edges_arith(self, self.upper, self.bounds[2],
                              other.upper, other.bounds[2])

\* lines 412-416: the two calls of the helper
adjacent_to_arith_edges_swapped(self, other) ==
    IF self.empty \/ other.empty THEN {}
    ELSE
        _upper_edge_adjacent_to_lower_arith(self, self.lower, self.bounds[1],
                                            other.upper, other.bounds[2])
        \cup _upper_edge_adjacent_to_lower_arith(self, other.lower, other.bounds[1],
                                                 self.upper, self.bounds[2])

adjacent_to_arith(self, other) ==
    IF self.empty \/ other.empty THEN {}
    ELSE
        _upper_edge_adjacent_to_lower_arith(self, self.upper, self.bounds[2],
                                            other.lower, other.bounds[1])
        \cup (IF _upper_edge_adjacent_to_lower(self, self.upper, self.bounds[2],
                                               other.lower, other.bounds[1])
              THEN {}
              ELSE _upper_edge_adjacent_to_lower_arith(self, other.upper, other.bounds[2],
                                                       self.lower, self.bounds[1]))

\* lines 258-261: a range argument is handed to contained_by, a scalar is only
\* compared
contains_arith(self, value) ==
    IF IsRange(value) THEN contained_by_arith(value, self) ELSE {}

\* ---- results of the calls ---------------------------------------------------
\* a call returns a value or raises
Return(x) == [exc |-> "none", ret |-> x]
Raise(e) == [exc |-> e, ret |-> None]


\* what a call does whose step arithmetic has the operand pairs arith and
\* whose value, when none of them fails, is x
Outcome(arith, x) ==
    IF \E p \in arith : p[1] = None \/ p[2] = None THEN Raise("TypeError")
    ELSE Return(x)

EmptyRange == Range(None, None, <<"[", ")">>, TRUE)

\* ---- Range.union ------------------------------------------------------------
\* the test of line 431: the two ranges are "disjunct"
union_disjunct_overlaps_only(self, other) == ~overlaps(self, other)

union_disjunct(self, other) ==
    ~overlaps(self, other) /\ ~adjacent_to(self, other)

\* the tests of lines 446 and 453: the result's edge is self's
union_lower_from_self_greater(self, other) ==
    _compare_edges(self, self.lower, self.bounds[1],
                   other.lower, other.bounds[1], FALSE) > 0

union_lower_from_self(self, other) ==
    _compare_edges(self, self.lower, self.bounds[1],
                   other.lower, other.bounds[1], FALSE) < 0

union_upper_from_self_always(self, other) == TRUE

union_upper_from_self_lesser(self, other) ==
    _compare_edges(self, self.upper, self.bounds[2],
                   other.upper, other.bounds[2], FALSE) < 0

union_upper_from_self(self, other) ==
    _compare_edges(self, self.upper, self.bounds[2],
                   other.upper, other.bounds[2], FALSE) > 0

\* lines 431-460: both operands are non-empty
union_nonempty(self, other) ==
    IF union_disjunct(self, other) THEN Raise("ValueError")
    ELSE
        LET slower == self.lower     slower_b == self.bounds[1]
            supper == self.upper     supper_b == self.bounds[2]
            olower == other.lower    olower_b == other.bounds[1]
            oupper == other.upper    oupper_b == other.bounds[2]
            rlower == IF union_lower_from_self(self, other) THEN slower ELSE olower
            rlower_b == IF union_lower_from_self(self, other) THEN slower_b ELSE olower_b
            rupper == IF union_upper_from_self(self, other) THEN supper ELSE oupper
            rupper_b == IF union_upper_from_self(self, other) THEN supper_b ELSE oupper_b
        IN Return(Range(rlower, rupper, <<rlower_b, rupper_b>>, FALSE))

union_empty_returns_itself(self, other) ==
    IF self.empty THEN Return(self)
    ELSE IF other.empty THEN Return(other)
    ELSE union_nonempty(self, other)

union(self, other) ==
    IF self.empty THEN Return(other)
    ELSE IF other.empty THEN Return(self)
    ELSE union_nonempty(self, other)

\* ---- Range.difference -------------------------------------------------------
\* the guards of lines 486, 504 and 513, on the four edge comparisons
difference_strictly_inner_nonstrict(sl_vs_ol, su_vs_ou) ==
    sl_vs_ol <= 0 /\ su_vs_ou >= 0

difference_strictly_inner(sl_vs_ol, su_vs_ou) ==
    sl_vs_ol < 0 /\ su_vs_ou > 0

difference_left_case(sl_vs_ol, su_vs_ol, su_vs_ou) ==
    sl_vs_ol <= 0 /\ su_vs_ol >= 0 /\ su_vs_ou <= 0

difference_right_case_strict(sl_vs_ol, su_vs_ou, sl_vs_ou) ==
    sl_vs_ol >= 0 /\ su_vs_ou >= 0 /\ sl_vs_ou < 0

difference_right_case(sl_vs_ol, su_vs_ou, sl_vs_ou) ==
    sl_vs_ol >= 0 /\ su_vs_ou >= 0 /\ sl_vs_ou <= 0

\* line 505: the bracket closing the left portion
difference_rupper_b_always_open(olower_b) ==
    IF olower_b = "[" THEN ")" ELSE ")"

difference_rupper_b(olower_b) ==
    IF olower_b = "[" THEN ")" ELSE "]"

\* line 514: the bracket opening the right portion
difference_rlower_b(oupper_b) ==
    IF oupper_b = "]" THEN "(" ELSE "("

difference(self, other) ==
    IF self.empty \/ other.empty THEN Return(self)
    ELSE
        LET slower == self.lower     slower_b == self.bounds[1]
            supper == self.upper     supper_b == self.bounds[2]
            olower == other.lower    olower_b == other.bounds[1]
            oupper == other.upper    oupper_b == other.bounds[2]
            sl_vs_ol == _compare_edges(self, slower, slower_b, olower, olower_b, FALSE)
            su_vs_ou == _compare_edges(self, supper, supper_b, oupper, oupper_b, FALSE)
            sl_vs_ou == _compare_edges(self, slower, slower_b, oupper, oupper_b, FALSE)
            su_vs_ol == _compare_edges(self, supper, supper_b, olower, olower_b, FALSE)
        IN
        IF difference_strictly_inner(sl_vs_ol, su_vs_ou) THEN Raise("ValueError")
        ELSE IF sl_vs_ou > 0 \/ su_vs_ol < 0 THEN Return(self)
        ELSE IF sl_vs_ol >= 0 /\ su_vs_ou <= 0 THEN Return(EmptyRange)
        ELSE IF difference_left_case(sl_vs_ol, su_vs_ol, su_vs_ou) THEN
            LET rupper_b == difference_rupper_b(olower_b) IN
            IF _compare_edges(self, slower, slower_b, olower, rupper_b, FALSE) = 0
                THEN Return(EmptyRange)
            ELSE Return(Range(slower, olower, <<slower_b, rupper_b>>, FALSE))
        ELSE IF difference_right_case(sl_vs_ol, su_vs_ou, sl_vs_ou) THEN
            LET rlower_b == difference_rlower_b(oupper_b) IN
            IF _compare_edges(self, oupper, rlower_b, supper, supper_b, FALSE) = 0
                THEN Return(EmptyRange)
            ELSE Return(Range(oupper, supper, <<rlower_b, supper_b>>, FALSE))
        ELSE Raise("AssertionError")

\* ---- Range._stringify / __str__ ------------------------------------------------
\* a string is the sequence of its characters
DigitChars == <<"0", "1", "2", "3", "4", "5", "6", "7", "8", "9">>

\* the decimal digits of a natural number, as the f-string renders an int
RECURSIVE Digits(_)
Digits(n) ==
    IF n < 10 THEN <<DigitChars[n + 1]>>
    ELSE Digits(n \div 10) \o <<DigitChars[(n % 10) + 1]>>

_stringify_none_as_zero(self) ==
    IF self.empty THEN <<"e", "m", "p", "t", "y">>
    ELSE <<self.bounds[1]>> \o Digits(self.lower.v) \o <<",">>
         \o Digits(self.upper.v) \o <<self.bounds[2]>>

_stringify(self) ==
    IF self.empty THEN <<"e", "m", "p", "t", "y">>
    ELSE
        LET l == IF self.lower = None THEN <<>> ELSE Digits(self.lower.v)
            r == IF self.upper = None THEN <<>> ELSE Digits(self.upper.v)
            b0 == self.bounds[1]
            b1 == self.bounds[2]
        IN <<b0>> \o l \o <<",">> \o r \o <<b1>>

\* ---- the state machine ------------------------------------------------------
\* self, other: the two ranges of a call; arg: the argument of contains, a
\* scalar or a range (None before any such call); op: the method called last
\* ("new" right after construction); result: what that call returned or raised
VARIABLES self, other, arg, op, result

vars == <<self, other, arg, op, result>>

\* Range(lower, upper) with integer values and the default bounds "[)"
IntRange(lower, upper) == Range(IntVal(lower), IntVal(upper), <<"[", ")">>, FALSE)

\* the pairs of the documented scenarios
Scenarios ==
    { <<Range(IntVal(1), IntVal(5), <<"[", "]">>, FALSE),
        Range(IntVal(6), IntVal(10), <<"[", "]">>, FALSE)>>,
      <<IntRange(1, 10), IntRange(5, 15)>>,
      <<IntRange(1, 10), IntRange(20, 30)>>,
      <<IntRange(1, 10), IntRange(3, 5)>>,
      <<IntRange(1, 10), IntRange(5, 20)>>,
      <<IntRange(1, 10), IntRange(0, 5)>>,
      <<Range(IntVal(0), IntVal(5), <<"(", "]">>, FALSE), IntRange(1, 6)>>,
      <<IntRange(10, 50), IntRange(10, 50)>>,
      <<Range(None, IntVal(5), <<"[", ")">>, FALSE),
        Range(IntVal(1), None, <<"(", ")">>, FALSE)>> }

\* the scalars the documented scenarios ask about
ScenarioScalars == {IntVal(1), IntVal(5), IntVal(6)}

Init ==
    /\ \/ \E dom \in Domains :
            /\ self \in Ranges(dom)
            /\ other \in Ranges(dom)
       \/ \E p \in Scenarios :
            /\ self = p[1]
            /\ other = p[2]
    /\ arg = None
    /\ op = "new"
    /\ result = Return(None)

\* the argument is a range, or a scalar of the domain of the range's values
SameDomain(x, r) ==
    IF IsRange(x) THEN TRUE
    ELSE /\ r.lower.k \in {"none", x.k}
         /\ r.upper.k \in {"none", x.k}

Call(name, r) ==
    /\ op = "new"
    /\ op' = name
    /\ result' = r
    /\ UNCHANGED <<self, other>>

Contains ==
    /\ op = "new"
    /\ \E value \in {other} \cup UNION {Scalars(dom) : dom \in Domains}
                \cup (IF <<self, other>> \in Scenarios THEN ScenarioScalars ELSE {}) :
        /\ SameDomain(value, self)
        /\ arg' = value
        /\ Call("contains", Outcome(contains_arith(self, value), contains(self, value)))

ContainedBy ==
    /\ Call("contained_by",
            Outcome(contained_by_arith(self, other), contained_by(self, other)))
    /\ UNCHANGED arg

Overlaps ==
    /\ Call("overlaps", Outcome(overlaps_arith(self, other), overlaps(self, other)))
    /\ UNCHANGED arg

StrictlyLeftOf ==
    /\ Call("strictly_left_of",
            Outcome(strictly_left_of_arith(self, other), strictly_left_of(self, other)))
    /\ UNCHANGED arg

StrictlyRightOf ==
    /\ Call("strictly_right_of",
            Outcome(strictly_right_of_arith(self, other), strictly_right_of(self, other)))
    /\ UNCHANGED arg

NotExtendLeftOf ==
    /\ Call("not_extend_left_of",
            Outcome(not_extend_left_of_arith(self, other),
                    not_extend_left_of(self, other)))
    /\ UNCHANGED arg

NotExtendRightOf ==
    /\ Call("not_extend_right_of",
            Outcome(not_extend_right_of_arith(self, other),
                    not_extend_right_of(self, other)))
    /\ UNCHANGED arg

AdjacentTo ==
    /\ Call("adjacent_to",
            Outcome(adjacent_to_arith(self, other), adjacent_to(self, other)))
    /\ UNCHANGED arg

\* str(self)
Stringify == Call("__str__", Return(_stringify(self))) /\ UNCHANGED arg

\* the four markers of an edge
Markers == {"[", "(", "]", ")"}

\* the values an edge handed to the receiver's comparator can carry
EdgeValuesOf(r) ==
    {None} \cup {x \in UNION {Scalars(dom) : dom \in Domains} : SameDomain(x, r)}

\* self._compare_edges(value1, bound1, value2, bound2, only_values) on two
\* edges of one domain.  The comparator reads of its receiver only the step,
\* so the receivers are the ranges with the default bounds, and other plays no
\* part (other = self).
CompareEdges ==
    /\ op = "new"
    /\ other = self /\ ~self.empty /\ self.bounds = <<"[", ")">>
    /\ \E value1 \in EdgeValuesOf(self), value2 \in EdgeValuesOf(self),
          bound1 \in Markers, bound2 \in Markers, only_values \in BOOLEAN :
            /\ {value1.k, value2.k} \ {"none"} \in {{}, {"int"}, {"decimal"}}
            /\ arg' = [value1 |-> value1, bound1 |-> bound1,
                        value2 |-> value2, bound2 |-> bound2,
                        only_values |-> only_values]
            /\ Call("_compare_edges",
                    Outcome(_compare_edges_arith(self, value1, bound1, value2, bound2),
                            _compare_edges(self, value1, bound1, value2, bound2,
                                           only_values)))

Union == Call("union", union(self, other)) /\ UNCHANGED arg

Difference == Call("difference", difference(self, other)) /\ UNCHANGED arg

Next ==
    \/ Contains
    \/ ContainedBy
    \/ Overlaps
    \/ StrictlyLeftOf
    \/ StrictlyRightOf
    \/ NotExtendLeftOf
    \/ NotExtendRightOf
    \/ AdjacentTo
    \/ Stringify
    \/ CompareEdges
    \/ Union
    \/ Difference

Spec == Init /\ [][Next]_vars

\* ---- vocabulary of the properties -------------------------------------------
\* integers are looked at WindowPad beyond the values the two ranges carry
WindowPad == 2

EdgeValues(r) == {r.lower.v, r.upper.v}

Smallest(S) == CHOOSE x \in S : \A y \in S : x <= y
Largest(S) == CHOOSE x \in S : \A y \in S : x >= y

Window ==
    LET S == EdgeValues(self) \cup EdgeValues(other)
    IN (Smallest(S) - WindowPad)..(Largest(S) + WindowPad)

\* the integers of the window a range denotes
Ints(r) == {x \in Window : _contains_value(r, IntVal(x))}

\* the values of the range are integers (or absent)
IntDomain(r) == r.lower.k \in {"none", "int"} /\ r.upper.k \in {"none", "int"}

\* two non-empty integer ranges, each denoting at least one integer
IntOperands ==
    /\ IntDomain(self) /\ IntDomain(other)
    /\ ~self.empty /\ ~other.empty
    /\ Ints(self) # {} /\ Ints(other) # {}

Returned == result.exc = "none"

\* the four edge comparisons made by the receiver
SlVsOl == _compare_edges(self, self.lower, self.bounds[1], other.lower, other.bounds[1], FALSE)
SuVsOu == _compare_edges(self, self.upper, self.bounds[2], other.upper, other.bounds[2], FALSE)
SlVsOu == _compare_edges(self, self.lower, self.bounds[1], other.upper, other.bounds[2], FALSE)
SuVsOl == _compare_edges(self, self.upper, self.bounds[2], other.lower, other.bounds[1], FALSE)

\* ---- C1 ---------------------------------------------------------------------
\* C1: if a.union(b) returns a range c, then c.contains(a) and c.contains(b).
C1_UnionContainsOperands ==
    (op = "union" /\ Returned) =>
        /\ contains(result.ret, self)
        /\ contains(result.ret, other)

\* a union of two non-empty ranges that is neither of them
C1_Witness ==
    /\ op = "union" /\ Returned
    /\ ~self.empty /\ ~other.empty
    /\ result.ret # self /\ result.ret # other
    /\ contains(result.ret, self) /\ contains(result.ret, other)

\* ---- C2 ---------------------------------------------------------------------
\* C2: difference never reaches the "assert False" that follows its case
\* analysis: it returns a range or raises ValueError, also for ranges whose
\* lower exceeds their upper.
C2_DifferenceNeverAsserts ==
    op = "difference" =>
        /\ result.exc \in {"none", "ValueError"}
        /\ Returned => IsRange(result.ret)

\* the last case of the analysis (right portion) decided the call: none of
\* the tests before it held
C2_Witness ==
    /\ op = "difference" /\ Returned
    /\ ~self.empty /\ ~other.empty
    /\ ~difference_strictly_inner(SlVsOl, SuVsOu)
    /\ ~(SlVsOu > 0 \/ SuVsOl < 0)
    /\ ~(SlVsOl >= 0 /\ SuVsOu <= 0)
    /\ ~difference_left_case(SlVsOl, SuVsOl, SuVsOu)

\* ---- C3 ---------------------------------------------------------------------
\* C3: in the integer domain Range(lo, v, "[]").adjacent_to(Range(v+1, hi, "[]"))
\* is true for lo <= v and hi >= v+1, e.g. Range(1,5,"[]") and Range(6,10,"[]").
C3_InclusiveSuccessorAdjacent ==
    ( /\ op = "adjacent_to"
      /\ ~self.empty /\ ~other.empty
      /\ self.bounds = <<"[", "]">> /\ other.bounds = <<"[", "]">>
      /\ self.lower.k = "int" /\ self.upper.k = "int"
      /\ other.lower.k = "int" /\ other.upper.k = "int"
      /\ self.lower.v <= self.upper.v
      /\ other.lower.v = self.upper.v + 1
      /\ other.upper.v >= other.lower.v )
    => result.ret = TRUE

\* ---- C4 ---------------------------------------------------------------------
\* C4: in the integer domain, when a.adjacent_to(b) is true for two ranges that
\* each denote an integer, they share no integer and no integer lies between
\* them: some element of one is the successor of some element of the other.
C4_AdjacentMeansNoGapNoOverlap ==
    (op = "adjacent_to" /\ IntOperands /\ result.ret = TRUE) =>
        /\ Ints(self) \cap Ints(other) = {}
        /\ \E x \in Ints(self), y \in Ints(other) : x + 1 = y \/ y + 1 = x

\* ---- C5 ---------------------------------------------------------------------
\* C5: right portion.  In the integer domain, when self starts at or after
\* other's start, self's lower edge lies within other and self ends strictly
\* after other's end, self.difference(other) denotes exactly the integers of
\* self that are not in other.
C5_RightPortionExact ==
    ( /\ op = "difference" /\ IntOperands
      /\ SlVsOl >= 0 /\ SlVsOu <= 0 /\ SuVsOu > 0 )
    => /\ Returned
       /\ Ints(result.ret) = Ints(self) \ Ints(other)

\* ---- C6 ---------------------------------------------------------------------
\* C6: left portion.  In the integer domain, when self starts strictly before
\* other's start and ends inside other, self.difference(other) denotes exactly
\* the integers of self that are not in other; its lower edge is self's and its
\* upper edge is other's lower value with the complementary bracket.
\* Range(1,10).difference(Range(5,20)) == Range(1,5,bounds="[)").
C6_LeftPortionExact ==
    /\ ( /\ op = "difference" /\ IntOperands
         /\ SlVsOl < 0 /\ SuVsOl >= 0 /\ SuVsOu <= 0 )
       => /\ Returned
          /\ ~result.ret.empty
          /\ Ints(result.ret) = Ints(self) \ Ints(other)
          /\ result.ret.lower = self.lower
          /\ result.ret.bounds[1] = self.bounds[1]
          /\ result.ret.upper = other.lower
          /\ result.ret.bounds[2] = (IF other.bounds[1] = "[" THEN ")" ELSE "]")
    /\ (op = "difference" /\ self = IntRange(1, 10) /\ other = IntRange(5, 20))
       => result = Return(IntRange(1, 5))

\* a left portion cut at an exclusive lower edge of other
C6_Witness ==
    /\ op = "difference" /\ IntOperands
    /\ SlVsOl < 0 /\ SuVsOl >= 0 /\ SuVsOu <= 0
    /\ other.bounds[1] = "("
    /\ Returned /\ result.ret.bounds[2] = "]"
    /\ Ints(result.ret) = Ints(self) \ Ints(other)

\* ---- C7 ---------------------------------------------------------------------
\* C7: a.union(b) raises ValueError exactly when both are non-empty and neither
\* a.overlaps(b) nor a.adjacent_to(b); otherwise it returns a range.
\* Range(1,10).union(Range(20,30)) raises.
C7_UnionRaisesIffDisjunct ==
    /\ op = "union" =>
        /\ result.exc = "ValueError" <=>
            ( /\ ~self.empty /\ ~other.empty
              /\ ~overlaps(self, other) /\ ~adjacent_to(self, other) )
        /\ result.exc # "ValueError" => (Returned /\ IsRange(result.ret))
    /\ (op = "union" /\ self = IntRange(1, 10) /\ other = IntRange(20, 30))
       => result.exc = "ValueError"

\* the documented scenario raised
C7_Witness ==
    /\ op = "union" /\ self = IntRange(1, 10) /\ other = IntRange(20, 30)
    /\ result.exc = "ValueError"

C9_EmptyIdentityAsStated ==
    /\ (op = "union" /\ other.empty) => result = Return(self)
    /\ (op = "union" /\ self.empty) => result = Return(other)
    /\ (op = "difference" /\ other.empty) => result = Return(self)
    /\ (op = "difference" /\ self.empty) => result = Return(self)

\* C9 amended: r.union(e) == r for every non-empty r, and for an empty r it
\* returns e, itself an empty range; e.union(r) == r, r.difference(e) == r and
\* e.difference(r) == e for every r; none of the calls raises.
C9_EmptyIdentity ==
    /\ (op = "union" /\ other.empty /\ ~self.empty) => result = Return(self)
    /\ (op = "union" /\ other.empty /\ self.empty) =>
            (result = Return(other) /\ result.ret.empty)
    /\ (op = "union" /\ self.empty) => result = Return(other)
    /\ (op = "difference" /\ other.empty) => result = Return(self)
    /\ (op = "difference" /\ self.empty) => result = Return(self)

\* a non-empty range united with an empty one
C9_Witness ==
    /\ op = "union" /\ other.empty /\ ~self.empty
    /\ result = Return(self)

\* ---- C10 --------------------------------------------------------------------
\* C10 as stated: E = Range(None, None, empty=True) contains no scalar and
\* contains every range.
C10_EmptyContainsAsStated ==
    (op = "contains" /\ self = EmptyRange) =>
        (result.ret = TRUE <=> IsRange(arg))

\* C10 amended: E contains no scalar, and E.contains(r) is true exactly when
\* r is itself empty.
C10_EmptyContains ==
    (op = "contains" /\ self = EmptyRange) =>
        (result.ret = TRUE <=> (IsRange(arg) /\ arg.empty))

\* E was asked for a non-empty range and answered false
C10_Witness ==
    /\ op = "contains" /\ self = EmptyRange
    /\ IsRange(arg) /\ ~arg.empty
    /\ result.ret = FALSE

\* ---- more vocabulary ----------------------------------------------------------
\* the lower edge of the range does not compare above its upper edge: the
\* range denotes at least one point
WellFormed(r) ==
    _compare_edges(r, r.lower, r.bounds[1], r.upper, r.bounds[2], FALSE) <= 0

\* the predicates of a range on a range
RelationOps ==
    {"contained_by", "overlaps", "strictly_left_of", "strictly_right_of",
     "not_extend_left_of", "not_extend_right_of", "adjacent_to"}

\* ---- C11 --------------------------------------------------------------------
\* C11: overlaps is symmetric: a.overlaps(b) == b.overlaps(a), also when the
\* two receivers infer different steps.
C11_OverlapsSymmetric ==
    op = "overlaps" => (Returned /\ result.ret = overlaps(other, self))

\* two overlapping ranges whose receivers infer different steps
C11_Witness ==
    /\ op = "overlaps" /\ Returned /\ result.ret = TRUE
    /\ _get_discrete_step(self) # _get_discrete_step(other)
    /\ overlaps(other, self)

\* ---- C12 --------------------------------------------------------------------
\* C12: adjacent_to is symmetric: a.adjacent_to(b) == b.adjacent_to(a).
C12_AdjacentSymmetric ==
    op = "adjacent_to" => (Returned /\ result.ret = adjacent_to(other, self))

\* other ends where self starts, and both calls say adjacent
C12_Witness ==
    /\ op = "adjacent_to" /\ Returned /\ result.ret = TRUE
    /\ other.upper # None /\ self.lower # None /\ other.upper.v = self.lower.v
    /\ adjacent_to(other, self)

\* ---- C13 --------------------------------------------------------------------
\* C13 as stated: for all constructible ranges, a.strictly_left_of(b) implies
\* not a.strictly_right_of(b) and b.strictly_right_of(a).
C13_LeftRightAsStated ==
    (op = "strictly_left_of" /\ result.ret = TRUE) =>
        /\ ~strictly_right_of(self, other)
        /\ strictly_right_of(other, self)

\* C13 amended: a.strictly_left_of(b) implies b.strictly_right_of(a) for all
\* ranges, and implies not a.strictly_right_of(b) when a and b are both
\* well formed (lower edge not above upper edge).
C13_LeftRight ==
    (op = "strictly_left_of" /\ result.ret = TRUE) =>
        /\ strictly_right_of(other, self)
        /\ (WellFormed(self) /\ WellFormed(other)) => ~strictly_right_of(self, other)

\* a well-formed range strictly left of another
C13_Witness ==
    /\ op = "strictly_left_of" /\ result.ret = TRUE
    /\ WellFormed(self) /\ WellFormed(other)
    /\ ~strictly_right_of(self, other) /\ strictly_right_of(other, self)

\* ---- C14 --------------------------------------------------------------------
\* C14: r.contains(r) is true for every range r.
C14_ContainsReflexive ==
    (op = "contains" /\ IsRange(arg) /\ arg = self) =>
        (Returned /\ result.ret = TRUE)

\* a non-empty bounded range asked for itself
C14_Witness ==
    /\ op = "contains" /\ IsRange(arg) /\ arg = self
    /\ ~self.empty /\ self.lower # None /\ self.upper # None
    /\ result.ret = TRUE

\* ---- C15 --------------------------------------------------------------------
\* C15: in the integer domain Range(v, w, "(]").contains(x) equals
\* Range(v+1, w+1, "[)").contains(x); Range(0,5,"(]") and Range(1,6,"[)") both
\* contain 1 and agree at 5 and 6.
C15_DiscreteNormalization ==
    /\ ( /\ op = "contains" /\ ~IsRange(arg) /\ arg.k = "int"
         /\ ~self.empty /\ self.bounds = <<"(", "]">>
         /\ self.lower.k = "int" /\ self.upper.k = "int" )
       => ( /\ Returned
            /\ result.ret =
                 contains(IntRange(self.lower.v + 1, self.upper.v + 1), arg) )
    /\ ( /\ op = "contains" /\ arg = IntVal(1)
         /\ self = Range(IntVal(0), IntVal(5), <<"(", "]">>, FALSE) )
       => (result.ret = TRUE /\ contains(IntRange(1, 6), arg) = TRUE)

\* the scenario at its inclusive upper value
C15_Witness ==
    /\ op = "contains" /\ arg = IntVal(5)
    /\ self = Range(IntVal(0), IntVal(5), <<"(", "]">>, FALSE)
    /\ result.ret = TRUE /\ contains(IntRange(1, 6), arg) = TRUE

\* ---- C16 --------------------------------------------------------------------
\* C16: for non-empty a and b whose union returns, the result's lower edge
\* (value and bracket) is a lower edge of an operand that compares <= both
\* lower edges, and its upper edge is an upper edge of an operand that compares
\* >= both upper edges.  Range(1,10).union(Range(5,15)) == Range(1,15,"[)").
C16_UnionEdges ==
    /\ (op = "union" /\ ~self.empty /\ ~other.empty /\ Returned) =>
        LET c == result.ret IN
        /\ ~c.empty
        /\ <<c.lower, c.bounds[1]>> \in
                {<<self.lower, self.bounds[1]>>, <<other.lower, other.bounds[1]>>}
        /\ _compare_edges(self, c.lower, c.bounds[1],
                          self.lower, self.bounds[1], FALSE) <= 0
        /\ _compare_edges(self, c.lower, c.bounds[1],
                          other.lower, other.bounds[1], FALSE) <= 0
        /\ <<c.upper, c.bounds[2]>> \in
                {<<self.upper, self.bounds[2]>>, <<other.upper, other.bounds[2]>>}
        /\ _compare_edges(self, c.upper, c.bounds[2],
                          self.upper, self.bounds[2], FALSE) >= 0
        /\ _compare_edges(self, c.upper, c.bounds[2],
                          other.upper, other.bounds[2], FALSE) >= 0
    /\ (op = "union" /\ self = IntRange(1, 10) /\ other = IntRange(5, 15))
       => result = Return(IntRange(1, 15))

\* the documented scenario
C16_Witness ==
    /\ op = "union" /\ self = IntRange(1, 10) /\ other = IntRange(5, 15)
    /\ result = Return(IntRange(1, 15))

\* ---- C17 --------------------------------------------------------------------
\* C17: on integer-domain ranges and integer scalars the predicates return a
\* boolean and never fail: no "value + step" or "value - step" is evaluated
\* with a None value or a None step.
C17_PredicatesTotal ==
    /\ (op \in RelationOps /\ IntDomain(self) /\ IntDomain(other)) =>
            (Returned /\ result.ret \in BOOLEAN)
    /\ ( /\ op = "contains" /\ IntDomain(self)
         /\ IF IsRange(arg) THEN IntDomain(arg) ELSE arg.k = "int" )
       => (Returned /\ result.ret \in BOOLEAN)

\* adjacency asked of an unbounded edge, with step arithmetic evaluated
C17_Witness ==
    /\ op = "adjacent_to" /\ IntDomain(self) /\ IntDomain(other)
    /\ ~self.empty /\ ~other.empty
    /\ self.upper = None /\ other.lower # None
    /\ adjacent_to_arith(self, other) # {}
    /\ Returned /\ result.ret \in BOOLEAN

\* ---- C18 --------------------------------------------------------------------
\* C18 as stated: for all non-empty constructible ranges, if
\* self.contained_by(other) then self.difference(other) is an empty range.
C18_ContainedDifferenceAsStated ==
    ( /\ op = "difference" /\ ~self.empty /\ ~other.empty
      /\ contained_by(self, other) )
    => (Returned /\ result.ret.empty)

\* C18 amended: the same for a well-formed self (lower edge not above upper
\* edge).
C18_ContainedDifference ==
    ( /\ op = "difference" /\ ~self.empty /\ ~other.empty
      /\ WellFormed(self)
      /\ contained_by(self, other) )
    => (Returned /\ result.ret.empty)

\* a well-formed range subtracted from a different range that contains it
C18_Witness ==
    /\ op = "difference" /\ ~self.empty /\ ~other.empty
    /\ WellFormed(self) /\ contained_by(self, other) /\ self # other
    /\ Returned /\ result.ret.empty

\* ---- C19 --------------------------------------------------------------------
\* the number a sequence of digit characters writes
RECURSIVE ParseNat(_)
ParseNat(str) ==
    IF Len(str) = 0 THEN 0
    ELSE ParseNat(SubSeq(str, 1, Len(str) - 1)) * 10
         + (CHOOSE d \in 0..9 : DigitChars[d + 1] = str[Len(str)])

IsDigits(str) == \A i \in 1..Len(str) : \E d \in 1..10 : DigitChars[d] = str[i]

\* the text shows the value: nothing for None, its digits otherwise
Shows(str, value) ==
    IF value = None THEN str = <<>>
    ELSE Len(str) > 0 /\ IsDigits(str) /\ ParseNat(str) = value.v

\* C19: a range with empty=True serializes to "empty"; any other range to
\* bounds[0], the lower value (nothing for None), a comma, the upper value
\* (nothing for None), bounds[1].  Range(10,50,"[)") gives "[10,50)",
\* Range(None,5) gives "[,5)", Range(1,None,"()") gives "(1,)".
C19_CanonicalText ==
    op = "__str__" =>
        LET text == result.ret IN
        /\ Returned
        /\ self.empty => text = <<"e", "m", "p", "t", "y">>
        /\ ~self.empty =>
            /\ Len(text) >= 3
            /\ text[1] = self.bounds[1]
            /\ text[Len(text)] = self.bounds[2]
            /\ \E i \in 2..(Len(text) - 1) :
                /\ text[i] = ","
                /\ Shows(SubSeq(text, 2, i - 1), self.lower)
                /\ Shows(SubSeq(text, i + 1, Len(text) - 1), self.upper)
        /\ self = IntRange(10, 50) => text = <<"[", "1", "0", ",", "5", "0", ")">>
        /\ self = Range(None, IntVal(5), <<"[", ")">>, FALSE)
                => text = <<"[", ",", "5", ")">>
        /\ self = Range(IntVal(1), None, <<"(", ")">>, FALSE)
                => text = <<"(", "1", ",", ")">>

\* the documented scenario
C19_Witness ==
    /\ op = "__str__" /\ self = IntRange(10, 50)
    /\ result = Return(<<"[", "1", "0", ",", "5", "0", ")">>)

\* ---- C20 --------------------------------------------------------------------
\* C20: within one domain compare_edges returns -1, 0 or 1, is antisymmetric
\* (compare(e1,e2) == -compare(e2,e1)) and transitive (compare(e1,e2) <= 0 and
\* compare(e2,e3) <= 0 imply compare(e1,e3) <= 0).
C20_EdgeOrder ==
    op = "_compare_edges" =>
        LET cmp(v1, b1, v2, b2) == _compare_edges(self, v1, b1, v2, b2, arg.only_values)
        IN
        /\ Returned
        /\ result.ret \in {-1, 0, 1}
        /\ result.ret = 0 - cmp(arg.value2, arg.bound2, arg.value1, arg.bound1)
        /\ \A value3 \in EdgeValuesOf(self), bound3 \in Markers :
            ( /\ {arg.value1.k, arg.value2.k, value3.k} \ {"none"}
                    \in {{}, {"int"}, {"decimal"}}
              /\ result.ret <= 0
              /\ cmp(arg.value2, arg.bound2, value3, bound3) <= 0 )
            => cmp(arg.value1, arg.bound1, value3, bound3) <= 0

\* an exclusive lower edge found equal to the inclusive lower edge one step up
C20_Witness ==
    /\ op = "_compare_edges" /\ Returned
    /\ arg.bound1 = "(" /\ arg.bound2 = "["
    /\ arg.value1.k = "int" /\ arg.value2.k = "int"
    /\ arg.value2.v = arg.value1.v + 1
    /\ result.ret = 0

\* ---- C21 --------------------------------------------------------------------
\* the value of an integer edge after the "[)" normalization: an exclusive
\* lower edge and an inclusive upper edge move one step up
Canonical(value, bound) == IF bound \in {"(", "]"} THEN value.v + 1 ELSE value.v

\* the call compares two integer edges under step 1
IntEdgesCompared ==
    /\ op = "_compare_edges"
    /\ _get_discrete_step(self) = IntVal(1)
    /\ arg.value1.k = "int" /\ arg.value2.k = "int"

\* C21: with step 1, compare_edges(v, '(', v+1, '[') == 0 and
\* compare_edges(v, ']', v+1, ')') == 0, with and without only_values; both
\* edges are normalized before the values are compared.
C21_DiscreteEdgeNormalization ==
    IntEdgesCompared =>
        /\ ( /\ arg.value2.v = arg.value1.v + 1
             /\ <<arg.bound1, arg.bound2>> \in {<<"(", "[">>, <<"]", ")">>} )
           => result = Return(0)
        /\ Canonical(arg.value1, arg.bound1) < Canonical(arg.value2, arg.bound2)
           => result = Return(-1)
        /\ Canonical(arg.value1, arg.bound1) > Canonical(arg.value2, arg.bound2)
           => result = Return(1)
        /\ ( /\ Canonical(arg.value1, arg.bound1) = Canonical(arg.value2, arg.bound2)
             /\ arg.only_values )
           => result = Return(0)

\* an inclusive upper edge at v found equal to the exclusive upper edge at v+1
C21_Witness ==
    /\ IntEdgesCompared /\ ~arg.only_values
    /\ arg.bound1 = "]" /\ arg.bound2 = ")"
    /\ arg.value2.v = arg.value1.v + 1
    /\ result = Return(0)

\* ---- C22 --------------------------------------------------------------------
\* the marker is a lower-bound marker
IsLowerMarker(bound) == bound \in {"[", "("}

\* C22: two None edges compare 0 on the same side, -1 when the first is a
\* lower and the second an upper marker, 1 the other way round; exactly one
\* None edge compares less than the finite edge when its marker is a lower
\* marker and greater when it is an upper marker, in either argument position.
C22_InfiniteEdges ==
    op = "_compare_edges" =>
        /\ (arg.value1 = None /\ arg.value2 = None) =>
            result = Return(IF IsLowerMarker(arg.bound1) = IsLowerMarker(arg.bound2) THEN 0
                            ELSE IF IsLowerMarker(arg.bound1) THEN -1 ELSE 1)
        /\ (arg.value1 = None /\ arg.value2 # None) =>
            result = Return(IF IsLowerMarker(arg.bound1) THEN -1 ELSE 1)
        /\ (arg.value1 # None /\ arg.value2 = None) =>
            result = Return(IF IsLowerMarker(arg.bound2) THEN 1 ELSE -1)

\* an unbounded upper edge in the first position against a finite lower edge
C22_Witness ==
    /\ op = "_compare_edges"
    /\ arg.value1 = None /\ ~IsLowerMarker(arg.bound1)
    /\ arg.value2 # None /\ IsLowerMarker(arg.bound2)
    /\ result = Return(1)

\* ---- C23 --------------------------------------------------------------------
\* two finite edges whose values are equal after normalization
TiedEdges ==
    /\ op = "_compare_edges"
    /\ arg.value1 # None /\ arg.value2 # None
    /\ NormalizedValue(_get_discrete_step(self), arg.value1, arg.bound1).v
         = NormalizedValue(_get_discrete_step(self), arg.value2, arg.bound2).v

\* C23: for tied finite edges only_values=True gives 0; otherwise both
\* inclusive gives 0, both exclusive gives 0 on the same side and makes the
\* lower-side edge greater on opposite sides, and one exclusive edge compares
\* greater than the inclusive one if it is a lower edge and less if it is an
\* upper edge.
C23_InclusivityTieBreak ==
    TiedEdges =>
        LET inc1 == NormalizedInc(_get_discrete_step(self), arg.bound1)
            inc2 == NormalizedInc(_get_discrete_step(self), arg.bound2)
            low1 == IsLowerMarker(arg.bound1)
            low2 == IsLowerMarker(arg.bound2)
        IN
        /\ arg.only_values => result = Return(0)
        /\ (~arg.only_values /\ inc1 /\ inc2) => result = Return(0)
        /\ (~arg.only_values /\ ~inc1 /\ ~inc2 /\ low1 = low2) => result = Return(0)
        /\ (~arg.only_values /\ ~inc1 /\ ~inc2 /\ low1 # low2) =>
                result = Return(IF low1 THEN 1 ELSE -1)
        /\ (~arg.only_values /\ ~inc1 /\ inc2) =>
                result = Return(IF low1 THEN 1 ELSE -1)
        /\ (~arg.only_values /\ inc1 /\ ~inc2) =>
                result = Return(IF low2 THEN -1 ELSE 1)

\* an exclusive lower edge against an exclusive upper edge at the same value
C23_Witness ==
    /\ TiedEdges /\ ~arg.only_values
    /\ arg.bound1 = "(" /\ arg.bound2 = ")"
    /\ arg.value1 = arg.value2
    /\ result = Return(1)

\* ---- C24 --------------------------------------------------------------------
\* C24: with an empty self or other, overlaps, adjacent_to, strictly_left_of,
\* strictly_right_of, not_extend_left_of and not_extend_right_of return false;
\* an empty self is contained by every range, a non-empty self never by an
\* empty other.
C24_EmptyOperands ==
    /\ (op \in (RelationOps \ {"contained_by"}) /\ (self.empty \/ other.empty))
        => result = Return(FALSE)
    /\ (op = "contained_by" /\ self.empty) => result = Return(TRUE)
    /\ (op = "contained_by" /\ ~self.empty /\ other.empty) => result = Return(FALSE)

\* an empty other that carries a lower value no greater than self's
C24_Witness ==
    /\ op = "not_extend_left_of"
    /\ ~self.empty /\ other.empty
    /\ self.lower # None /\ other.lower # None /\ self.lower.v >= other.lower.v
    /\ result = Return(FALSE)

\* ---- C25 --------------------------------------------------------------------
\* the upper edge of a meets the lower edge of b at one finite value that
\* exactly one of them includes
MeetsAt(a, b) ==
    /\ a.upper # None /\ b.lower # None
    /\ a.upper.v = b.lower.v
    /\ <<a.bounds[2], b.bounds[1]>> \in {<<")", "[">>, <<"]", "(">>}

\* C25: without a step, non-empty a and b are adjacent exactly when one's
\* finite upper value equals the other's finite lower value with brackets
\* ')' '[' or ']' '('; never when the values differ or the edge is unbounded.
C25_ContinuousAdjacency ==
    ( /\ op = "adjacent_to" /\ ~self.empty /\ ~other.empty
      /\ _get_discrete_step(self) = None )
    => result = Return(MeetsAt(self, other) \/ MeetsAt(other, self))

\* other ends inclusively where self starts exclusively
C25_Witness ==
    /\ op = "adjacent_to" /\ ~self.empty /\ ~other.empty
    /\ self.lower.k = "decimal" /\ other.upper.k = "decimal"
    /\ MeetsAt(other, self) /\ ~MeetsAt(self, other)
    /\ other.bounds[2] = "]"
    /\ result = Return(TRUE)

\* ---- C26 --------------------------------------------------------------------
\* C26: for non-empty integer ranges a and b that each denote an integer,
\* a.overlaps(b) iff some integer x has a.contains(x) and b.contains(x).
C26_OverlapsIsIntersection ==
    (op = "overlaps" /\ IntOperands) =>
        result = Return(Ints(self) \cap Ints(other) # {})

\* two ranges in different bracket styles sharing exactly one integer
C26_Witness ==
    /\ op = "overlaps" /\ IntOperands
    /\ self.bounds # other.bounds
    /\ \E x \in Window : Ints(self) \cap Ints(other) = {x}
    /\ result = Return(TRUE)

\* ---- C27 --------------------------------------------------------------------
\* C27: for non-empty integer ranges a and b that each denote an integer, when
\* a.union(b) returns c, c.contains(x) iff a.contains(x) or b.contains(x) for
\* every integer x.
C27_UnionIsExact ==
    (op = "union" /\ IntOperands /\ Returned) =>
        Ints(result.ret) = Ints(self) \cup Ints(other)

\* ---- C28 --------------------------------------------------------------------
\* C28: for non-empty integer ranges a and b that each denote an integer,
\* a.contained_by(b), equivalently b.contains(a), iff every integer of a is an
\* integer of b; Range(0,5,"(]") and Range(1,6,"[)") contain each other.
C28_ContainmentIsSubset ==
    /\ (op = "contained_by" /\ IntOperands) =>
        /\ result = Return(Ints(self) \subseteq Ints(other))
        /\ contains(other, self) = result.ret
    /\ ( /\ op = "contained_by"
         /\ self = Range(IntVal(0), IntVal(5), <<"(", "]">>, FALSE)
         /\ other = IntRange(1, 6) )
       => (result = Return(TRUE) /\ contained_by(other, self))

\* the two bracket styles of the same integers
C28_Witness ==
    /\ op = "contained_by"
    /\ self = Range(IntVal(0), IntVal(5), <<"(", "]">>, FALSE)
    /\ other = IntRange(1, 6)
    /\ Ints(self) = Ints(other)
    /\ result = Return(TRUE) /\ contained_by(other, self)

\* ---- C29 --------------------------------------------------------------------
\* the call is one of the three positional predicates on two non-empty ranges
\* that each denote a point
Positioned ==
    /\ op \in {"strictly_left_of", "strictly_right_of", "overlaps"}
    /\ ~self.empty /\ ~other.empty
    /\ WellFormed(self) /\ WellFormed(other)

\* C29: for non-empty a and b that each denote a point, exactly one of
\* a.strictly_left_of(b), a.strictly_right_of(b) and a.overlaps(b) is true.
C29_Trichotomy ==
    Positioned =>
        LET left == IF op = "strictly_left_of" THEN result.ret
                    ELSE strictly_left_of(self, other)
            right == IF op = "strictly_right_of" THEN result.ret
                     ELSE strictly_right_of(self, other)
            over == IF op = "overlaps" THEN result.ret
                    ELSE overlaps(self, other)
        IN
        /\ Returned
        /\ left \/ right \/ over
        /\ ~(left /\ right) /\ ~(left /\ over) /\ ~(right /\ over)

\* two continuous ranges touching at a value only one of them includes
C29_Witness ==
    /\ Positioned /\ op = "strictly_right_of"
    /\ self.lower.k = "decimal" /\ other.upper.k = "decimal"
    /\ self.lower.v = other.upper.v
    /\ result = Return(TRUE)
    /\ ~strictly_left_of(self, other) /\ ~overlaps(self, other)

\* ---- C30 --------------------------------------------------------------------
\* C30 as stated: for integer ranges a and b, a.union(b) raises iff b.union(a)
\* raises, and when both return the results have the same
\* (lower, upper, bounds, empty).
C30_UnionCommutesAsStated ==
    (op = "union" /\ IntDomain(self) /\ IntDomain(other)) =>
        /\ result.exc = union(other, self).exc
        /\ Returned => result.ret = union(other, self).ret

\* C30 amended: a.union(b) raises iff b.union(a) raises; when both return, the
\* results have the same empty flag and, when not empty, their lower edges
\* compare equal and their upper edges compare equal under compare_edges, so
\* they denote the same integers (they may differ in the value and bracket that
\* write a tied edge).
C30_UnionCommutes ==
    (op = "union" /\ IntDomain(self) /\ IntDomain(other)) =>
        LET c == result.ret
            d == union(other, self).ret
        IN
        /\ result.exc = union(other, self).exc
        /\ Returned =>
            /\ c.empty = d.empty
            /\ Ints(c) = Ints(d)
            /\ ~c.empty => \A r \in {self, other} \ {x \in {self, other} : x.empty} :
                /\ _compare_edges(r, c.lower, c.bounds[1], d.lower, d.bounds[1], FALSE) = 0
                /\ _compare_edges(r, c.upper, c.bounds[2], d.upper, d.bounds[2], FALSE) = 0

\* both orders return, with the same edges written differently
C30_Witness ==
    /\ op = "union" /\ IntOperands /\ Returned
    /\ union(other, self).exc = "none"
    /\ result.ret # union(other, self).ret
    /\ Ints(result.ret) = Ints(union(other, self).ret)

====
